---- MODULE Spec2Model ----
(***************************************************************************)
(* A model of the agent_template service: the tool registry (tools.py),    *)
(* the prompt loader (utils.py) and the agent/tools graph with its         *)
(* POST /query handler (main.py).                                          *)
(*                                                                         *)
(* Python values are modelled as tagged records: the state's `response`    *)
(* is None, a model response object, or a str.  Python exceptions are      *)
(* records [type, msg] carried in a result [ok |-> FALSE, exc |-> e].      *)
(* Text is a TLA+ string; + and f-strings are \o.                          *)
(***************************************************************************)
EXTENDS Integers, Sequences, FiniteSets, TLC

\* ------------------------------------------------------------------ bounds
\* The longest tool_calls list the hosted model emits.
MaxCalls == 3
\* The number of request slots (queries that may be in flight or queued).
NumQueries == 2
\* The number of tool definitions in a hypothetical tool-definitions module.
MaxDefs == 2

Queries == 1..NumQueries

\* ------------------------------------------------------- Python values
None == [kind |-> "None"]
Str(s) == [kind |-> "str", value |-> s]
Ok(v) == [ok |-> TRUE, value |-> v]
Raise(type, msg) == [ok |-> FALSE, exc |-> [type |-> type, msg |-> msg]]
NoExc == [type |-> "none", msg |-> ""]

\* ------------------------------------------------------------ tools.py
\* The bodies of the decorated functions.  A tool's invoke validates the
\* arguments against the function's signature first: a missing parameter
\* raises a ValidationError.  extra_* are the bodies of the hypothetical
\* definitions used to study duplicate names.
ToolParam(func) ==
  CASE func = "get_weather" -> "location"
    [] func = "search_web" -> "query"
    [] OTHER -> "location"

ToolBody(func, v) ==
  CASE func = "get_weather" -> "Sunny, 72°F in " \o v
    [] func = "search_web" -> "Results for: " \o v
    [] func = "extra_rainy" -> "Rainy in " \o v
    [] OTHER -> "Snowy in " \o v

invoke(tool, args) ==
  IF ToolParam(tool.func) \in DOMAIN args
  THEN Ok(ToolBody(tool.func, args[ToolParam(tool.func)]))
  ELSE Raise("ValidationError",
             "1 validation error for " \o tool.name \o "\n"
               \o ToolParam(tool.func) \o "\n  Field required")

\* A member of the tool-definitions module: the identifier it is bound to
\* and the attributes get_tools looks at.
Member(ident, has_name, has_invoke, name, func) ==
  [ident |-> ident, has_name |-> has_name, has_invoke |-> has_invoke,
   name |-> name, func |-> func]
NonTool(ident) == Member(ident, FALSE, FALSE, "", "")
ToolDef(ident, name, func) == Member(ident, TRUE, TRUE, name, func)

\* What tools.py binds besides its tools: the imports and get_tools itself.
Imports == << NonTool("tool"), NonTool("inspect"), NonTool("sys") >>
Trailer == << NonTool("get_tools") >>
\* The two tool definitions of tools.py, in the order they are written.
ActualToolDefs ==
  << ToolDef("get_weather", "get_weather", "get_weather"),
     ToolDef("search_web", "search_web", "search_web") >>
ActualNamespace == Imports \o ActualToolDefs \o Trailer

\* The identifiers of the model in the order Python compares str.
IdentOrder ==
  << "a_weather", "get_tools", "get_weather", "inspect", "search_web",
     "sys", "tool", "z_weather" >>
Rank(ident) == CHOOSE i \in 1..Len(IdentOrder) : IdentOrder[i] = ident

\* The module's namespace after executing the definitions in order: a later
\* binding of an identifier replaces the earlier one.
ModuleDict(ns) ==
  LET idents == { ns[i].ident : i \in 1..Len(ns) }
      last(id) == CHOOSE i \in 1..Len(ns) :
                    /\ ns[i].ident = id
                    /\ \A j \in 1..Len(ns) : ns[j].ident = id => j <= i
  IN [id \in idents |-> ns[last(id)]]

\* inspect.getmembers: the (name, value) pairs sorted by name.
RECURSIVE SortedIdents(_)
SortedIdents(S) ==
  IF S = {} THEN << >>
  ELSE LET m == CHOOSE x \in S : \A y \in S : Rank(x) <= Rank(y)
       IN << m >> \o SortedIdents(S \ {m})

getmembers(ns) ==
  LET d == ModuleDict(ns)
      ids == SortedIdents(DOMAIN d)
  IN [i \in 1..Len(ids) |-> d[ids[i]]]

get_tools_unsorted(ns) ==
  SelectSeq(ns, LAMBDA obj : obj.has_name /\ obj.has_invoke)

get_tools(ns) ==
  SelectSeq(getmembers(ns), LAMBDA obj : obj.has_name /\ obj.has_invoke)

\* ------------------------------------------------------------ utils.py
Missing == << "<missing>" >>
Whitespace == { " ", "\n", "\t" }

RECURSIVE lstrip(_)
lstrip(cs) ==
  IF cs # << >> /\ Head(cs) \in Whitespace THEN lstrip(Tail(cs)) ELSE cs

RECURSIVE rstrip(_)
rstrip(cs) ==
  IF cs # << >> /\ cs[Len(cs)] \in Whitespace
  THEN rstrip(SubSeq(cs, 1, Len(cs) - 1)) ELSE cs

RECURSIVE Chars(_)
Chars(cs) == IF cs = << >> THEN "" ELSE Head(cs) \o Chars(Tail(cs))

\* A prompt file is its characters; Missing stands for no such file.
build_prompt(file) ==
  IF file = Missing
  THEN Raise("FileNotFoundError",
             "[Errno 2] No such file or directory: 'prompts/system_prompt.txt'")
  ELSE Ok(Chars(rstrip(lstrip(file))))

PromptFiles == { Missing, << " ", "Be", " ", "brief.", "\n" >> }

\* ------------------------------------------------------------- main.py
\* What the hosted model returns: a message with a tool_calls list, or (an
\* older message type) an object without the attribute.
AIMessage(content, calls) ==
  [kind |-> "AIMessage", content |-> content, has_tool_calls |-> TRUE,
   tool_calls |-> calls]
PlainMessage(content) ==
  [kind |-> "PlainMessage", content |-> content, has_tool_calls |-> FALSE]

ToolCall(name, args) == [name |-> name, args |-> args]
\* A call of each kind: two well-formed ones, one naming no registered
\* tool, one whose arguments the tool's signature rejects.
CallPool ==
  { ToolCall("get_weather", [location |-> "Paris"]),
    ToolCall("search_web", [query |-> "cats"]),
    ToolCall("calculator", [expression |-> "1+1"]),
    ToolCall("get_weather", [city |-> "Paris"]) }

CallSeqs(n) == UNION { [1..k -> CallPool] : k \in 1..n }

LLMFailure == Raise("APIConnectionError", "Connection error.")
NoToolReplies == { Ok(AIMessage("Hello!", << >>)), Ok(PlainMessage("Hello!")) }

\* The outcomes of llm_with_tools.invoke in the sequential service.
LLMOutcomes ==
  {LLMFailure} \cup NoToolReplies
    \cup { Ok(AIMessage("", tc)) : tc \in CallSeqs(MaxCalls) }

\* The outcomes used when several queries are interleaved.
ConcOutcomes ==
  {LLMFailure, Ok(AIMessage("Hello!", << >>))}
    \cup { Ok(AIMessage("", tc)) : tc \in
             { << ToolCall("get_weather", [location |-> "Paris"]) >>,
               << ToolCall("search_web", [query |-> "cats"]),
                  ToolCall("calculator", [expression |-> "1+1"]) >>,
               << ToolCall("search_web", [query |-> "cats"]),
                  ToolCall("get_weather", [city |-> "Paris"]) >> } }

\* The request bodies: one with the text key, one without it.
UserInputs == { [text |-> "Weather in Paris?"], [query |-> "Weather?"] }

hasattr_tool_calls(r) ==
  r.kind \in {"AIMessage", "PlainMessage"} /\ r.has_tool_calls

\* The index in tl of the first tool named name, 0 when there is none.
first_match(tl, name) ==
  LET hits == { i \in 1..Len(tl) : tl[i].name = name }
  IN IF hits = {} THEN 0
     ELSE CHOOSE i \in hits : \A j \in hits : i <= j

execute_tool_raising(tl, tool_call) ==
  LET i == first_match(tl, tool_call.name)
  IN IF i = 0 THEN Raise("ValueError", "Tool not found")
     ELSE invoke(tl[i], tool_call.args)

execute_tool_swallowing(tl, tool_call) ==
  LET i == first_match(tl, tool_call.name)
      r == IF i = 0 THEN Ok("Tool not found") ELSE invoke(tl[i], tool_call.args)
  IN IF r.ok THEN r ELSE Ok("Error: " \o r.exc.msg)

execute_tool(tl, tool_call) ==
  LET i == first_match(tl, tool_call.name)
  IN IF i = 0 THEN Ok("Tool not found")
     ELSE invoke(tl[i], tool_call.args)

result_line(tool_call, result) ==
  "Tool " \o tool_call.name \o " result: " \o result

append_result_shared(res, q, line) ==
  [r \in DOMAIN res |-> Append(res[q], line)]

append_result_reversed(res, q, line) ==
  [res EXCEPT ![q] = << line >> \o @]

\* results.append(...) on the results list of query q's tool_node call.
append_result(res, q, line) ==
  [res EXCEPT ![q] = Append(@, line)]

\* '\n'.join(results)
RECURSIVE join(_)
join(lines) ==
  IF lines = << >> THEN ""
  ELSE IF Len(lines) = 1 THEN lines[1]
  ELSE lines[1] \o "\n" \o join(Tail(lines))

response_text(lines) ==
  IF lines # << >> THEN join(lines) ELSE "No tools executed"

END == "__end__"

route_agent_always_tools(st) == "tools"

route_agent(st) ==
  IF /\ st.response # None
     /\ hasattr_tool_calls(st.response)
     /\ st.response.tool_calls # << >>
  THEN "tools"
  ELSE END

workflow_loop_back(node, st) ==
  IF node = "agent" THEN route_agent(st) ELSE "agent"

\* The compiled graph: the node that follows `node` in state st.
workflow(node, st) ==
  IF node = "agent" THEN route_agent(st) ELSE END

query_return_narrow(result) ==
  IF result.ok THEN [response |-> result.value.response]
  ELSE IF result.exc.type = "KeyError"
       THEN [error |-> "An error occurred: " \o result.exc.msg]
       ELSE [unhandled |-> result.exc.msg]

\* The handler's try/except around graph.invoke: every exception of the
\* model is an Exception, so the except clause takes it.
query_return(result) ==
  IF result.ok THEN [response |-> result.value.response]
  ELSE [error |-> "An error occurred: " \o result.exc.msg]

\* --------------------------------------------------------------- state
VARIABLES
  namespace,   \* the tool-definitions module, in definition order
  tools,       \* main.py's module-level tools = get_tools()
  prompt_file, \* prompts/system_prompt.txt
  pc,          \* per query: idle, agent, tools, tool_loop or done
  user_input,  \* per query: the request body
  state,       \* per query: the graph's State
  tool_calls,  \* per query: tool_node's local tool_calls
  it,          \* per query: the position of tool_node's for loop
  results,     \* per query: tool_node's local results
  reply,       \* per query: what the handler returned
  llm_prompt,  \* per query: the prompt passed to the model
  llm_out,     \* history: what the model client returned to the query
  raised,      \* history: the exception raised in the query's call chain
  invoked,     \* history: the tool invocations of the query, in order
  agent_runs,  \* history: executions of agent_node for the query
  tools_runs,  \* history: executions of tool_node for the query
  resp_hist    \* history: the values state.response has held

vars ==
  << namespace, tools, prompt_file, pc, user_input, state, tool_calls, it,
     results, reply, llm_prompt, llm_out, raised, invoked, agent_runs,
     tools_runs, resp_hist >>

process_vars == << namespace, tools, prompt_file >>

NoReply == [pending |-> TRUE]
NoInput == [empty |-> TRUE]
NoState == [input |-> "", response |-> None]

\* Process start on the tool-definitions module ns: tools is bound once.
InitWith(ns) ==
  /\ namespace = ns
  /\ tools = get_tools(ns)
  /\ prompt_file \in PromptFiles
  /\ pc = [q \in Queries |-> "idle"]
  /\ user_input = [q \in Queries |-> NoInput]
  /\ state = [q \in Queries |-> NoState]
  /\ tool_calls = [q \in Queries |-> << >>]
  /\ it = [q \in Queries |-> 0]
  /\ results = [q \in Queries |-> << >>]
  /\ reply = [q \in Queries |-> NoReply]
  /\ llm_prompt = [q \in Queries |-> ""]
  /\ llm_out = [q \in Queries |-> None]
  /\ raised = [q \in Queries |-> NoExc]
  /\ invoked = [q \in Queries |-> << >>]
  /\ agent_runs = [q \in Queries |-> 0]
  /\ tools_runs = [q \in Queries |-> 0]
  /\ resp_hist = [q \in Queries |-> << >>]

Init == InitWith(ActualNamespace)

\* The exception `result` carries leaves graph.invoke (or the subscript
\* user_input['text']) inside the handler's try block.
Fail_without_reply(q, result) ==
  /\ raised' = [raised EXCEPT ![q] = result.exc]
  /\ pc' = [pc EXCEPT ![q] = "done"]
  /\ UNCHANGED reply

Fail(q, result) ==
  /\ raised' = [raised EXCEPT ![q] = result.exc]
  /\ reply' = [reply EXCEPT ![q] = query_return(result)]
  /\ pc' = [pc EXCEPT ![q] = "done"]

\* The graph moves on from `node` with state st: to the next node, or to
\* END, where graph.invoke returns st and the handler returns.
Advance(q, node, st) ==
  LET nxt == workflow(node, st)
  IN /\ state' = [state EXCEPT ![q] = st]
     /\ resp_hist' = [resp_hist EXCEPT ![q] =
                        IF st.response = state[q].response THEN @
                        ELSE Append(@, st.response)]
     /\ IF nxt = END
        THEN /\ reply' = [reply EXCEPT ![q] = query_return(Ok(st))]
             /\ pc' = [pc EXCEPT ![q] = "done"]
        ELSE /\ pc' = [pc EXCEPT ![q] = nxt]
             /\ UNCHANGED reply

\* POST /query arrives: the handler builds the initial State and enters
\* the graph at its entry point.
Query(q) ==
  /\ pc[q] = "idle"
  /\ \E ui \in UserInputs :
       /\ user_input' = [user_input EXCEPT ![q] = ui]
       /\ IF "text" \in DOMAIN ui
          THEN /\ state' = [state EXCEPT ![q] =
                              [input |-> ui.text, response |-> None]]
               /\ resp_hist' = [resp_hist EXCEPT ![q] = << None >>]
               /\ pc' = [pc EXCEPT ![q] = "agent"]
               /\ UNCHANGED << reply, raised >>
          ELSE /\ Fail(q, Raise("KeyError", "'text'"))
               /\ UNCHANGED << state, resp_hist >>
  /\ UNCHANGED << process_vars, tool_calls, it, results, llm_prompt, llm_out,
                  invoked, agent_runs, tools_runs >>

\* agent_node, then the conditional edge.  outcomes is what the model
\* client may do with the prompt.
AgentNode(q, outcomes) ==
  /\ pc[q] = "agent"
  /\ agent_runs' = [agent_runs EXCEPT ![q] = @ + 1]
  /\ LET prompt == build_prompt(prompt_file)
     IN IF ~prompt.ok
        THEN /\ Fail(q, prompt)
             /\ UNCHANGED << state, resp_hist, llm_prompt, llm_out >>
        ELSE \E out \in outcomes :
               /\ llm_prompt' = [llm_prompt EXCEPT ![q] =
                                   prompt.value \o "\n\n" \o state[q].input]
               /\ IF ~out.ok
                  THEN /\ Fail(q, out)
                       /\ UNCHANGED << state, resp_hist, llm_out >>
                  ELSE /\ llm_out' = [llm_out EXCEPT ![q] = out.value]
                       /\ Advance(q, "agent",
                                  [input |-> state[q].input,
                                   response |-> out.value])
                       /\ UNCHANGED raised
  /\ UNCHANGED << process_vars, user_input, tool_calls, it, results, invoked,
                  tools_runs >>

\* tool_node up to its for loop.
ToolNodeEnter(q) ==
  /\ pc[q] = "tools"
  /\ tools_runs' = [tools_runs EXCEPT ![q] = @ + 1]
  /\ LET response == state[q].response
     IN tool_calls' = [tool_calls EXCEPT ![q] =
                         IF response # None /\ hasattr_tool_calls(response)
                         THEN response.tool_calls ELSE << >>]
  /\ results' = [results EXCEPT ![q] = << >>]
  /\ it' = [it EXCEPT ![q] = 1]
  /\ pc' = [pc EXCEPT ![q] = "tool_loop"]
  /\ UNCHANGED << process_vars, user_input, state, reply, llm_prompt, llm_out,
                  raised, invoked, agent_runs, resp_hist >>

\* One iteration of tool_node's for loop: execute_tool runs to its return
\* (or raises) before the line is appended.
ToolLoopStep(q) ==
  /\ pc[q] = "tool_loop"
  /\ it[q] <= Len(tool_calls[q])
  /\ LET tool_call == tool_calls[q][it[q]]
         hit == first_match(tools, tool_call.name)
         result == execute_tool(tools, tool_call)
     IN /\ invoked' = [invoked EXCEPT ![q] =
                         Append(@, [index |-> it[q],
                                    collected |-> Len(results[q]),
                                    ident |-> IF hit = 0 THEN "<none>"
                                              ELSE tools[hit].ident,
                                    func |-> IF hit = 0 THEN "<none>"
                                             ELSE tools[hit].func])]
        /\ IF result.ok
           THEN /\ results' = append_result(results, q,
                                            result_line(tool_call, result.value))
                /\ it' = [it EXCEPT ![q] = @ + 1]
                /\ UNCHANGED << pc, reply, raised >>
           ELSE /\ Fail(q, result)
                /\ results' = [results EXCEPT ![q] = << >>]
                /\ UNCHANGED it
  /\ UNCHANGED << process_vars, user_input, state, tool_calls, llm_prompt,
                  llm_out, agent_runs, tools_runs, resp_hist >>

\* tool_node after its loop, then the edge out of tools.
ToolNodeReturn(q) ==
  /\ pc[q] = "tool_loop"
  /\ it[q] > Len(tool_calls[q])
  /\ Advance(q, "tools",
             [input |-> state[q].input,
              response |-> Str(response_text(results[q]))])
  /\ UNCHANGED << process_vars, user_input, tool_calls, it, results,
                  llm_prompt, llm_out, raised, invoked, agent_runs, tools_runs >>

\* The response has been sent: the request's State is dropped.
Discard(q) ==
  /\ pc[q] = "done"
  /\ pc' = [pc EXCEPT ![q] = "idle"]
  /\ user_input' = [user_input EXCEPT ![q] = NoInput]
  /\ state' = [state EXCEPT ![q] = NoState]
  /\ tool_calls' = [tool_calls EXCEPT ![q] = << >>]
  /\ it' = [it EXCEPT ![q] = 0]
  /\ results' = [results EXCEPT ![q] = << >>]
  /\ reply' = [reply EXCEPT ![q] = NoReply]
  /\ llm_prompt' = [llm_prompt EXCEPT ![q] = ""]
  /\ llm_out' = [llm_out EXCEPT ![q] = None]
  /\ raised' = [raised EXCEPT ![q] = NoExc]
  /\ invoked' = [invoked EXCEPT ![q] = << >>]
  /\ agent_runs' = [agent_runs EXCEPT ![q] = 0]
  /\ tools_runs' = [tools_runs EXCEPT ![q] = 0]
  /\ resp_hist' = [resp_hist EXCEPT ![q] = << >>]
  /\ UNCHANGED process_vars

\* graph.invoke is a blocking call inside the async handler: the event
\* loop takes the next request only when the current one has returned.
EventLoopFree == \A r \in Queries : pc[r] = "idle"

SerialQuery(q) == EventLoopFree /\ Query(q)

Next ==
  \E q \in Queries :
    \/ SerialQuery(q)
    \/ AgentNode(q, LLMOutcomes)
    \/ ToolNodeEnter(q)
    \/ ToolLoopStep(q)
    \/ ToolNodeReturn(q)
    \/ Discard(q)

Spec == Init /\ [][Next]_vars

\* The hosted-model call and every tool invocation return or raise: a
\* query that is inside the graph keeps moving.
Progress(q) ==
  /\ WF_vars(AgentNode(q, LLMOutcomes))
  /\ WF_vars(ToolNodeEnter(q))
  /\ WF_vars(ToolLoopStep(q))
  /\ WF_vars(ToolNodeReturn(q))

FairSpec == Spec /\ \A q \in Queries : Progress(q)

\* Queries handled by independent workers: their steps interleave freely.
NextConcurrent ==
  \E q \in Queries :
    \/ Query(q)
    \/ AgentNode(q, ConcOutcomes)
    \/ ToolNodeEnter(q)
    \/ ToolLoopStep(q)
    \/ ToolNodeReturn(q)
    \/ Discard(q)

SpecConcurrent == Init /\ [][NextConcurrent]_vars

\* Tool-definition modules with up to MaxDefs tool definitions, among them
\* definitions sharing the name get_weather.
DefPool ==
  { ActualToolDefs[1], ActualToolDefs[2],
    ToolDef("a_weather", "get_weather", "extra_rainy"),
    ToolDef("z_weather", "get_weather", "extra_snowy"),
    ToolDef("get_weather", "get_weather", "extra_rainy") }

NameSpaces ==
  { Imports \o defs \o Trailer :
      defs \in UNION { [1..k -> DefPool] : k \in 0..MaxDefs } }

RegistryOutcomes ==
  { Ok(AIMessage("Hello!", << >>)),
    Ok(AIMessage("", << ToolCall("get_weather", [location |-> "Paris"]) >>)),
    Ok(AIMessage("", << ToolCall("search_web", [query |-> "cats"]),
                        ToolCall("get_weather", [location |-> "Paris"]) >>)) }

InitRegistry == \E ns \in NameSpaces : InitWith(ns)

NextRegistry ==
  \E q \in Queries :
    \/ SerialQuery(q)
    \/ AgentNode(q, RegistryOutcomes)
    \/ ToolNodeEnter(q)
    \/ ToolLoopStep(q)
    \/ ToolNodeReturn(q)
    \/ Discard(q)

SpecRegistry == InitRegistry /\ [][NextRegistry]_vars

\* ------------------------------------------------------------- claims
InFlight(q) == pc[q] \in {"agent", "tools", "tool_loop"}
Replied(q) == pc[q] = "done" /\ reply[q] # NoReply
Succeeded(q) == pc[q] = "done" /\ DOMAIN reply[q] = {"response"}
Errored(q) == pc[q] = "done" /\ DOMAIN reply[q] = {"error"}
IsMessage(r) == r.kind \in {"AIMessage", "PlainMessage"}
CarriesToolCalls(r) == r.kind = "AIMessage" /\ Len(r.tool_calls) > 0
Registered(name) == \E i \in 1..Len(tools) : tools[i].name = name

\* C1: within one query, response goes None -> model response -> final text
\* and changes at most twice; agent_node and tool_node each run at most
\* once, and once tool_node has been entered the query is never back at
\* the agent node.
OneRound ==
  \A q \in Queries :
    /\ agent_runs[q] <= 1
    /\ tools_runs[q] <= 1
    /\ Len(resp_hist[q]) <= 3
    /\ Len(resp_hist[q]) >= 1 => resp_hist[q][1] = None
    /\ Len(resp_hist[q]) >= 2 => IsMessage(resp_hist[q][2])
    /\ Len(resp_hist[q]) >= 3 => resp_hist[q][3].kind = "str"
    /\ pc[q] \in {"tools", "tool_loop"} => agent_runs[q] = 1
    /\ tools_runs[q] >= 1 => pc[q] \in {"tool_loop", "done"}

OneRoundWitness ==
  \E q \in Queries :
    /\ Succeeded(q)
    /\ agent_runs[q] = 1 /\ tools_runs[q] = 1
    /\ Len(resp_hist[q]) = 3

\* C2: a model response without tool calls (the list is empty, or the
\* attribute is absent) never reaches tool_node, and the handler returns
\* that very object as the response.
PassThrough ==
  \A q \in Queries :
    (llm_out[q] # None /\ ~CarriesToolCalls(llm_out[q])) =>
      /\ pc[q] = "done"
      /\ tools_runs[q] = 0
      /\ agent_runs[q] = 1
      /\ reply[q] = [response |-> llm_out[q]]

PassThroughWitness ==
  \E q \in Queries :
    /\ pc[q] = "done"
    /\ llm_out[q] = PlainMessage("Hello!")
    /\ reply[q] = [response |-> PlainMessage("Hello!")]

ExpectedLine(call) ==
  "Tool " \o call.name \o " result: " \o execute_tool(tools, call).value

RECURSIVE JoinUpTo(_, _)
JoinUpTo(calls, n) ==
  IF n = 1 THEN ExpectedLine(calls[1])
  ELSE JoinUpTo(calls, n - 1) \o "\n" \o ExpectedLine(calls[n])

\* C3: the tool calls are invoked one at a time in the order of the model
\* response (the i-th invocation is call i and finds i-1 lines collected),
\* and a completed tools step answers with the lines "Tool {name} result:
\* {result}" of all calls, in that order, joined by newlines.
InOrder ==
  \A q \in Queries :
    /\ Len(invoked[q]) <= Len(tool_calls[q])
    /\ \A i \in 1..Len(invoked[q]) :
         invoked[q][i].index = i /\ invoked[q][i].collected = i - 1
    /\ (Succeeded(q) /\ CarriesToolCalls(llm_out[q])) =>
         LET calls == llm_out[q].tool_calls
         IN /\ Len(invoked[q]) = Len(calls)
            /\ reply[q] = [response |-> Str(JoinUpTo(calls, Len(calls)))]

InOrderWitness ==
  \E q \in Queries :
    /\ Succeeded(q)
    /\ Len(tool_calls[q]) = 3
    /\ tool_calls[q][1].name = "search_web"
    /\ tool_calls[q][2].name = "get_weather"
    /\ tool_calls[q][3].name = "calculator"

\* C4: a call naming no registered tool never raises: its line reads
\* "Tool <name> result: Tool not found", an exception in the tools step
\* always comes from a call naming a registered tool, and when no such
\* call raises every call of the response is invoked and reported.
NotFoundTolerated ==
  \A q \in Queries :
    /\ \A i \in 1..Len(results[q]) :
         ~Registered(tool_calls[q][i].name) =>
           results[q][i] =
             "Tool " \o tool_calls[q][i].name \o " result: Tool not found"
    /\ (pc[q] = "done" /\ tools_runs[q] = 1 /\ raised[q] # NoExc) =>
         Registered(tool_calls[q][it[q]].name)
    /\ (pc[q] = "done" /\ tools_runs[q] = 1 /\ raised[q] = NoExc) =>
         /\ Len(results[q]) = Len(tool_calls[q])
         /\ Len(invoked[q]) = Len(tool_calls[q])
         /\ reply[q] = [response |-> Str(join(results[q]))]

NotFoundWitness ==
  \E q \in Queries :
    /\ Succeeded(q)
    /\ Len(tool_calls[q]) = 2
    /\ tool_calls[q][1].name = "calculator"
    /\ tool_calls[q][2].name = "search_web"
    /\ reply[q] = [response |->
         Str("Tool calculator result: Tool not found\n"
               \o "Tool search_web result: Results for: cats")]

\* C5: the handler's reply is either {response: the final state's
\* response} or {error: "An error occurred: " + message}: the latter
\* exactly when something raised in the call chain.
HandlerTotal ==
  \A q \in Queries :
    pc[q] = "done" =>
      /\ DOMAIN reply[q] \in {{"response"}, {"error"}}
      /\ raised[q] # NoExc =>
           reply[q] = [error |-> "An error occurred: " \o raised[q].msg]
      /\ raised[q] = NoExc => reply[q] = [response |-> state[q].response]

HandlerTotalWitness ==
  \E q \in Queries :
    /\ pc[q] = "done"
    /\ prompt_file = Missing
    /\ raised[q].type = "FileNotFoundError"
    /\ DOMAIN reply[q] = {"error"}

ToolDefsNamed(name) ==
  { i \in 1..Len(namespace) :
      /\ namespace[i].has_name /\ namespace[i].has_invoke
      /\ namespace[i].name = name }

\* C6 (as claimed): a resolved tool is the first definition, in the order
\* the namespace was written, among the tool definitions of that name.
FirstDefinitionWins ==
  \A q \in Queries : \A k \in 1..Len(invoked[q]) :
    LET e == invoked[q][k]
        defs == ToolDefsNamed(tool_calls[q][e.index].name)
    IN e.ident # "<none>" =>
         \E i \in defs :
           /\ \A j \in defs : i <= j
           /\ e.ident = namespace[i].ident
           /\ e.func = namespace[i].func

BoundTools ==
  LET d == ModuleDict(namespace)
  IN { id \in DOMAIN d : d[id].has_name /\ d[id].has_invoke }

\* C6 (amended): every tool bound in the namespace is listed once, also
\* when names repeat, and a resolved tool is, among the bound tools of
\* that name, the one whose identifier sorts first.
SmallestIdentifierWins ==
  LET d == ModuleDict(namespace)
  IN /\ Len(tools) = Cardinality(BoundTools)
     /\ \A id \in BoundTools : \E i \in 1..Len(tools) : tools[i] = d[id]
     /\ \A q \in Queries : \A k \in 1..Len(invoked[q]) :
          LET e == invoked[q][k]
              name == tool_calls[q][e.index].name
              same == { id \in BoundTools : d[id].name = name }
          IN IF same = {} THEN e.ident = "<none>"
             ELSE /\ e.ident \in same
                  /\ \A id \in same : Rank(e.ident) <= Rank(id)
                  /\ e.func = d[e.ident].func

SmallestIdentifierWitness ==
  \E q \in Queries :
    /\ Succeeded(q)
    /\ Len(invoked[q]) = 1
    /\ invoked[q][1].ident = "a_weather"
    /\ Cardinality(ToolDefsNamed("get_weather")) = 2
    /\ \E i \in ToolDefsNamed("get_weather") :
         /\ namespace[i].ident = "get_weather"
         /\ \A j \in ToolDefsNamed("get_weather") : i <= j
    /\ reply[q] = [response |-> Str("Tool get_weather result: Rainy in Paris")]

RECURSIVE AloneLines(_)
AloneLines(calls) ==
  IF calls = << >> THEN << >>
  ELSE << ExpectedLine(Head(calls)) >> \o AloneLines(Tail(calls))

FirstRaising(calls) ==
  LET bad == { i \in 1..Len(calls) : ~execute_tool(tools, calls[i]).ok }
  IN IF bad = {} THEN 0 ELSE CHOOSE i \in bad : \A j \in bad : i <= j

AloneReply(ui, out) ==
  LET err(msg) == [error |-> "An error occurred: " \o msg]
  IN IF "text" \notin DOMAIN ui THEN err("'text'")
     ELSE IF prompt_file = Missing
     THEN err("[Errno 2] No such file or directory: 'prompts/system_prompt.txt'")
     ELSE IF ~out.ok THEN err(out.exc.msg)
     ELSE IF ~CarriesToolCalls(out.value) THEN [response |-> out.value]
     ELSE LET calls == out.value.tool_calls
              k == FirstRaising(calls)
          IN IF k # 0 THEN err(execute_tool(tools, calls[k]).exc.msg)
             ELSE [response |-> Str(join(AloneLines(calls)))]

ModelOutcome(q) ==
  IF raised[q].type = "APIConnectionError" THEN LLMFailure ELSE Ok(llm_out[q])

Isolated ==
  \A q \in Queries :
    /\ InFlight(q) => state[q].input = user_input[q].text
    /\ pc[q] = "tool_loop" =>
         /\ tool_calls[q] = llm_out[q].tool_calls
         /\ results[q] = AloneLines(SubSeq(tool_calls[q], 1, it[q] - 1))
    /\ pc[q] = "done" => reply[q] = AloneReply(user_input[q], ModelOutcome(q))

\* C8: under every interleaving, a query's State, tool_calls and results
\* hold only what that query put there, its reply is the reply of the
\* same request handled alone, and the tool list is never rebound.
Independent ==
  /\ []Isolated
  /\ [][tools' = tools /\ namespace' = namespace]_vars

IndependentWitness ==
  \E q \in Queries : \E r \in Queries :
    /\ q # r
    /\ pc[q] = "tool_loop" /\ pc[r] = "tool_loop"
    /\ Len(results[q]) = 1 /\ Len(results[r]) = 1
    /\ results[q] # results[r]

\* C9: with the model call and the tool invocations returning or raising,
\* a query inside the graph always reaches its reply, running agent_node
\* and tool_node at most once each.
Terminates ==
  /\ \A q \in Queries : InFlight(q) ~> Replied(q)
  /\ [](\A q \in Queries : agent_runs[q] <= 1 /\ tools_runs[q] <= 1)

TerminatesWitness ==
  \E q \in Queries :
    /\ Replied(q)
    /\ agent_runs[q] = 1 /\ tools_runs[q] = 1
    /\ Len(invoked[q]) = MaxCalls

RaisingCalls(q) ==
  { i \in 1..Len(tool_calls[q]) :
      LET h == first_match(tools, tool_calls[q][i].name)
      IN h # 0 /\ ~invoke(tools[h], tool_calls[q][i].args).ok }

\* C10: when the invocation of a registered tool raises, that call is the
\* last one invoked, the lines collected so far reach nobody (the state's
\* response is still the model response) and the reply is the error
\* payload alone.
ToolFailureFailsQuery ==
  \A q \in Queries :
    (pc[q] = "done" /\ tools_runs[q] = 1 /\ RaisingCalls(q) # {}) =>
      LET k == CHOOSE i \in RaisingCalls(q) : \A j \in RaisingCalls(q) : i <= j
          h == first_match(tools, tool_calls[q][k].name)
      IN /\ Len(invoked[q]) = k
         /\ invoked[q][k].index = k
         /\ DOMAIN reply[q] = {"error"}
         /\ reply[q].error = "An error occurred: "
               \o invoke(tools[h], tool_calls[q][k].args).exc.msg
         /\ state[q].response = llm_out[q]
         /\ results[q] = << >>

ToolFailureWitness ==
  \E q \in Queries :
    /\ Errored(q)
    /\ raised[q].type = "ValidationError"
    /\ Len(tool_calls[q]) = 3
    /\ Len(invoked[q]) = 2
    /\ invoked[q][2].collected = 1

\* C7 (its case never arises): the join of tool_node is never reached with
\* an empty results list, because the route into tool_node needs a
\* non-empty tool_calls and every iteration appends a line or raises.
\* "No tools executed" is therefore never a reply of the service.
ResultsNeverEmptyAtJoin ==
  \A q \in Queries :
    /\ (pc[q] = "tool_loop" /\ it[q] > Len(tool_calls[q])) => results[q] # << >>
    /\ reply[q] # [response |-> Str("No tools executed")]

====
